---- MODULE Spec2Model ----
(***************************************************************************)
(* Model of src/main.py (hendon_parser): the POST "/" handler main_route,  *)
(* the row filter and accumulation loop of extract_data, and the text      *)
(* functions they use (parse_money and the regular expressions).           *)
(*                                                                         *)
(* Text.  A text is a sequence of characters; a character is a one-element *)
(* string, except for three kinds of non-ASCII characters that are written *)
(* as tokens: "NBSP" is U+00A0, "EUR" is the euro sign, and "FW0", "FW2",  *)
(* "FW3" are the fullwidth digits U+FF10, U+FF12, U+FF13 (Python's \d,     *)
(* int() and float() accept every Unicode decimal digit).                  *)
(*                                                                         *)
(* Numbers.  A Python float holding a money amount is modelled as an       *)
(* integer number of hundredths; every text of the model carries at most   *)
(* two fractional digits.  A ROI (a quotient of two amounts) and the sums  *)
(* and means of ROIs are exact fractions <<numerator, denominator>> in     *)
(* lowest terms; round(x, 4) yields an integer number of ten-thousandths.  *)
(***************************************************************************)
EXTENDS Integers, Sequences, FiniteSets, TLC

(***************************************************************************)
(* Characters and character classes of the regular expressions.            *)
(***************************************************************************)
AsciiDigits == {"0", "1", "2", "3", "4", "5", "6", "7", "8", "9"}
FullwidthDigits == {"FW0", "FW2", "FW3"}

\* \d of a str pattern: any Unicode decimal digit
IsDigit(c) == c \in AsciiDigits \cup FullwidthDigits

\* the value int() and float() give a decimal digit
DigitValue(c) ==
    CASE c \in {"0", "FW0"} -> 0
      [] c = "1" -> 1
      [] c \in {"2", "FW2"} -> 2
      [] c \in {"3", "FW3"} -> 3
      [] c = "4" -> 4
      [] c = "5" -> 5
      [] c = "6" -> 6
      [] c = "7" -> 7
      [] c = "8" -> 8
      [] c = "9" -> 9

\* \s of a str pattern (U+00A0 is whitespace to Python's re)
IsSpace(c) == c \in {" ", "NBSP"}

\* [^\d\s,.-] : a character of a currency symbol
IsSymbolChar(c) == ~IsDigit(c) /\ ~IsSpace(c) /\ c \notin {",", ".", "-"}

\* [\d,.-] : a character of parse_money's number group
IsNumberChar(c) == IsDigit(c) \/ c \in {",", ".", "-"}

\* [\d,] : a character of the buy-in number pattern
IsGroupChar(c) == IsDigit(c) \/ c = ","

(***************************************************************************)
(* Generic text helpers.                                                   *)
(***************************************************************************)
\* text[a .. b-1]
Slice(t, a, b) == IF b <= a THEN <<>> ELSE SubSeq(t, a, b - 1)

\* str.replace(ch, "") : the text without the character ch
RECURSIVE Remove(_, _)
Remove(t, ch) ==
    IF t = <<>> THEN <<>>
    ELSE IF Head(t) = ch THEN Remove(Tail(t), ch)
    ELSE <<Head(t)>> \o Remove(Tail(t), ch)

\* text.replace('\xa0', ' ')
ReplaceNbsp(t) == [i \in 1..Len(t) |-> IF t[i] = "NBSP" THEN " " ELSE t[i]]

\* str.strip(), and get_text(strip=True) of an element holding one string
RECURSIVE LStrip(_)
LStrip(t) == IF t # <<>> /\ IsSpace(Head(t)) THEN LStrip(Tail(t)) ELSE t
RECURSIVE RStrip(_)
RStrip(t) ==
    IF t # <<>> /\ IsSpace(t[Len(t)]) THEN RStrip(SubSeq(t, 1, Len(t) - 1)) ELSE t
Strip(t) == RStrip(LStrip(t))

\* needle in text
Contains(t, needle) ==
    \E i \in 1..(Len(t) - Len(needle) + 1) :
        SubSeq(t, i, i + Len(needle) - 1) = needle

\* the end (exclusive) of the longest run of digits starting at i
RECURSIVE DigitRunEnd(_, _)
DigitRunEnd(t, i) ==
    IF i <= Len(t) /\ IsDigit(t[i]) THEN DigitRunEnd(t, i + 1) ELSE i
RECURSIVE SpaceRunEnd(_, _)
SpaceRunEnd(t, i) ==
    IF i <= Len(t) /\ IsSpace(t[i]) THEN SpaceRunEnd(t, i + 1) ELSE i
RECURSIVE SymbolRunEnd(_, _)
SymbolRunEnd(t, i) ==
    IF i <= Len(t) /\ IsSymbolChar(t[i]) THEN SymbolRunEnd(t, i + 1) ELSE i
RECURSIVE NumberRunEnd(_, _)
NumberRunEnd(t, i) ==
    IF i <= Len(t) /\ IsNumberChar(t[i]) THEN NumberRunEnd(t, i + 1) ELSE i
RECURSIVE GroupRunEnd(_, _)
GroupRunEnd(t, i) ==
    IF i <= Len(t) /\ IsGroupChar(t[i]) THEN GroupRunEnd(t, i + 1) ELSE i

\* the integer a run of decimal digits denotes (0 for the empty run)
RECURSIVE DigitsValue(_)
DigitsValue(ds) ==
    IF ds = <<>> THEN 0
    ELSE 10 * DigitsValue(SubSeq(ds, 1, Len(ds) - 1)) + DigitValue(ds[Len(ds)])

(***************************************************************************)
(* float(s) for a text s over digits, "." and "-".                         *)
(***************************************************************************)
\* float(s) raised ValueError
NoFloat == [ok |-> FALSE, value |-> 0]

FloatValue(v) == [ok |-> TRUE, value |-> v]

\* the hundredths a fractional digit string denotes: its first two digits
FractionValue(fs) ==
    IF fs = <<>> THEN 0
    ELSE IF Len(fs) = 1 THEN 10 * DigitValue(fs[1])
    ELSE 10 * DigitValue(fs[1]) + DigitValue(fs[2])

\* digits "." digits, at least one digit in all
FloatWithFraction(ip, fp) ==
    IF DigitRunEnd(fp, 1) = Len(fp) + 1 /\ Len(ip) + Len(fp) > 0
    THEN FloatValue(100 * DigitsValue(ip) + FractionValue(fp))
    ELSE NoFloat

\* the unsigned literal whose leading digits end before position ie
FloatParts(body, ie) ==
    IF ie = Len(body) + 1
    THEN IF ie > 1 THEN FloatValue(100 * DigitsValue(body)) ELSE NoFloat
    ELSE IF body[ie] = "."
    THEN FloatWithFraction(Slice(body, 1, ie), Slice(body, ie + 1, Len(body) + 1))
    ELSE NoFloat

UnsignedFloat(body) == FloatParts(body, DigitRunEnd(body, 1))

Negated(f) == [ok |-> f.ok, value |-> 0 - f.value]

\* float(s): [-] digits [. [digits]]  or  [-] . digits ; otherwise ValueError
FloatOf(s) ==
    IF s # <<>> /\ s[1] = "-" THEN Negated(UnsignedFloat(Tail(s)))
    ELSE UnsignedFloat(s)

(***************************************************************************)
(* parse_money                                                             *)
(***************************************************************************)
\* Python's None for a currency symbol; a matched symbol is never empty
None == <<>>

\* return None, 0.0
NoMoney == [symbol |-> None, amount |-> 0]

\* re.search(r"([^\d\s,.-]+)\s*([\d,.-]+)", text) can match starting at i
MoneyMatchAt(t, i) ==
    /\ IsSymbolChar(t[i])
    /\ SpaceRunEnd(t, SymbolRunEnd(t, i)) <= Len(t)
    /\ IsNumberChar(t[SpaceRunEnd(t, SymbolRunEnd(t, i))])

\* where the leftmost match starts, looking from i on; 0 without a match
RECURSIVE FirstMoneyMatch(_, _)
FirstMoneyMatch(t, i) ==
    IF i > Len(t) THEN 0
    ELSE IF MoneyMatchAt(t, i) THEN i
    ELSE FirstMoneyMatch(t, i + 1)

\* the try block: float(number_str.replace(",", "")), symbol.strip()
MoneyResult(symbol, f) ==
    IF f.ok THEN [symbol |-> Strip(symbol), amount |-> f.value] ELSE NoMoney

\* group 2: the number run that starts at k
MoneyNumber(t, k) == Slice(t, k, NumberRunEnd(t, k))

\* the match whose group 1 is t[i .. j-1]
MoneyGroups(t, i, j) ==
    MoneyResult(Slice(t, i, j),
                FloatOf(Remove(MoneyNumber(t, SpaceRunEnd(t, j)), ",")))

MoneyAt(t, i) == IF i = 0 THEN NoMoney ELSE MoneyGroups(t, i, SymbolRunEnd(t, i))

MoneySearch(t) == MoneyAt(t, FirstMoneyMatch(t, 1))

\* parse_money(text) -> (symbol, amount); (None, 0.0) when nothing parses
parse_money(text) ==
    IF text = <<>> THEN NoMoney ELSE MoneySearch(ReplaceNbsp(text))

(***************************************************************************)
(* Buy-in numbers: re.findall(r'[\d,]+(?:\.\d+)?', text)[:2]               *)
(***************************************************************************)
MaxBuyinNumbers == 2

\* where a match whose [\d,]+ ends before j ends: after (?:\.\d+)?
NumberEnd(t, j) ==
    IF j + 1 <= Len(t) /\ t[j] = "." /\ IsDigit(t[j + 1])
    THEN DigitRunEnd(t, j + 1)
    ELSE j

RECURSIVE FindNumbers(_, _)
\* the match t[i .. e-1] and the matches after it
TakeNumber(t, i, e) == <<Slice(t, i, e)>> \o FindNumbers(t, e)

\* the non-overlapping matches of [\d,]+(?:\.\d+)? from position i on
FindNumbers(t, i) ==
    IF i > Len(t) THEN <<>>
    ELSE IF IsGroupChar(t[i]) THEN TakeNumber(t, i, NumberEnd(t, GroupRunEnd(t, i)))
    ELSE FindNumbers(t, i + 1)

\* seq[:n]
Prefix(s, n) == SubSeq(s, 1, IF Len(s) < n THEN Len(s) ELSE n)

\* numbers = re.findall(...)[:2]
BuyinNumbers(text) == Prefix(FindNumbers(text, 1), MaxBuyinNumbers)

\* float(n.replace(',', '')) raises ValueError for some n of numbers
BuyinRaises(numbers) ==
    \E i \in 1..Len(numbers) : ~FloatOf(Remove(numbers[i], ",")).ok

\* sum(float(n.replace(',', '')) for n in numbers)
RECURSIVE BuyinSum(_)
BuyinSum(numbers) ==
    IF numbers = <<>> THEN 0
    ELSE FloatOf(Remove(Head(numbers), ",")).value + BuyinSum(Tail(numbers))

(***************************************************************************)
(* Year: re.search(r"(\d{4})", date_text)                                  *)
(***************************************************************************)
YearDigits == 4

\* YearDigits consecutive digits start at i
YearMatchAt(t, i) ==
    /\ i + YearDigits - 1 <= Len(t)
    /\ \A k \in 0..(YearDigits - 1) : IsDigit(t[i + k])

\* m_year.group(1) of the leftmost match from i on, or None
RECURSIVE YearFrom(_, _)
YearFrom(t, i) ==
    IF i > Len(t) THEN None
    ELSE IF YearMatchAt(t, i) THEN SubSeq(t, i, i + YearDigits - 1)
    ELSE YearFrom(t, i + 1)

\* the year as the text found, or None
YearOf(t) == YearFrom(t, 1)

\* int(yr), the sort key of the yearly statistics
YearInt(yr) == DigitsValue(yr)

(***************************************************************************)
(* Exact fractions <<n, d>>, d > 0, in lowest terms.                       *)
(***************************************************************************)
RECURSIVE GCD(_, _)
GCD(a, b) == IF b = 0 THEN a ELSE GCD(b, a % b)

Reduced(n, d, g) == <<n \div g, d \div g>>

Frac(n, d) == Reduced(n, d, GCD(n, d))

AddFrac(p, q) == Frac(p[1] * q[2] + q[1] * p[2], p[2] * q[2])

\* sum(list) of a list of fractions
RECURSIVE SumFrac(_)
SumFrac(l) == IF l = <<>> THEN <<0, 1>> ELSE AddFrac(Head(l), SumFrac(Tail(l)))

RoundDigits == 4

RECURSIVE Pow10(_)
Pow10(n) == IF n = 0 THEN 1 ELSE 10 * Pow10(n - 1)

\* s / d rounded to an integer, ties to even
RoundHalfEven(s, d) ==
    IF 2 * (s % d) > d THEN (s \div d) + 1
    ELSE IF 2 * (s % d) < d THEN s \div d
    ELSE IF (s \div d) % 2 = 0 THEN s \div d
    ELSE (s \div d) + 1

\* round(p, 4) in ten-thousandths
Round(p) ==
    (p[1] \div p[2]) * Pow10(RoundDigits)
        + RoundHalfEven((p[1] % p[2]) * Pow10(RoundDigits), p[2])

(***************************************************************************)
(* Input rows.  A row is one <tr> of table.table--player-results:          *)
(*   hasName  - the row has a td.event_name cell                           *)
(*   name     - the text of that cell                                      *)
(*   isAnchor - the name is the text of an <a> inside the cell             *)
(*   hasDate  - the row has a td.date cell,  date - its text               *)
(*   cells    - the texts of the td.currency cells, in document order      *)
(***************************************************************************)
Row(name, isAnchor, date, cells) ==
    [hasName |-> TRUE, name |-> name, isAnchor |-> isAnchor,
     hasDate |-> TRUE, date |-> date, cells |-> cells]

\* event names
NameNLH      == <<"$", "5", "0", "0", " ", "N", "L", "H">>
NameOnline   == <<"O", "n", "l", "i", "n", "e", " ", "$", "5", "0", "0">>
NameLower    == <<"o", "n", "l", "i", "n", "e", " ", "$", "5", "0", "0">>
NameHiLo     == <<"$", "5", "0", "0", " ", "8", " ", "o", "r", " ", "B">>
NameComma    == <<"$", "1", "0", "0", " ", "N", "L", "H", ",", " ", "M">>
NameEuro     == <<"EUR", "5", "5", "0">>
NamePlus     == <<"$", "1", ",", "0", "0", "0", " ", "+", " ", "1", "0", "0">>
NamePlus3    == NamePlus \o <<" ", "+", " ", "5", "0">>
NameNoMoney  == <<"M", "a", "i", "n">>
NameFreeroll == <<"$", "0", " ", "F", "r", "e", "e">>

\* dates
Date2023   == <<"0", "1", "-", "J", "a", "n", "-", "2", "0", "2", "3">>
Date2022   == <<"1", "5", "-", "M", "a", "r", "-", "2", "0", "2", "2">>
DateFW2023 == <<"0", "1", "-", "J", "a", "n", "-", "FW2", "FW0", "FW2", "FW3">>
DateTBA    == <<"T", "B", "A">>

\* currency cells
Cell2200    == <<"$", "2", ",", "2", "0", "0">>
Cell100     == <<" ", "$", "1", "0", "0">>
CellZero    == <<"$", "0">>
CellEuro    == <<"EUR", "NBSP", "1", ",", "6", "5", "0">>
CellBad     == <<"$", "1", ".", "2", ".", "3">>
CellEmpty   == <<>>

AnchorNames ==
    {NameNLH, NameOnline, NameLower, NameHiLo, NameComma, NameEuro, NamePlus,
     NamePlus3, NameNoMoney, NameFreeroll}

RowSet ==
    {Row(n, TRUE, Date2023, <<Cell2200>>) : n \in AnchorNames}
    \cup {Row(NameNLH, TRUE, d, <<Cell2200>>) : d \in {Date2022, DateFW2023, DateTBA}}
    \cup {Row(NameNLH, TRUE, Date2023, cs) :
            cs \in {<<>>, <<CellZero>>, <<CellZero, Cell100>>, <<CellEuro>>,
                    <<CellBad>>, <<Cell100, Cell2200>>, <<CellEmpty, Cell100>>}}
    \cup {Row(NameNLH, FALSE, Date2023, <<Cell2200>>),
          Row(NameEuro, TRUE, Date2022, <<CellZero, CellEuro>>),
          Row(NameHiLo, TRUE, Date2022, <<Cell100>>),
          Row(NameNLH, TRUE, Date2022, <<Cell100>>),
          [hasName |-> FALSE, name |-> <<>>, isAnchor |-> FALSE,
           hasDate |-> FALSE, date |-> <<>>, cells |-> <<Cell2200>>]}

\* the longest page the model fetches
MaxRows == 2

RowSeqs == UNION {[1..n -> RowSet] : n \in 0..MaxRows}

(***************************************************************************)
(* Dictionaries.                                                           *)
(***************************************************************************)
EmptyDict == [k \in {} |-> 0]

\* d[k] = d.get(k, 0.0) + v
DictAdd(d, k, v) ==
    [c \in DOMAIN d \cup {k} |->
        (IF c \in DOMAIN d THEN d[c] ELSE 0) + (IF c = k THEN v ELSE 0)]

\* d.setdefault(k, [])
SetDefaultList(d, k) ==
    [c \in DOMAIN d \cup {k} |-> IF c \in DOMAIN d THEN d[c] ELSE <<>>]

\* d[k].append(v)
DictAppend(d, k, v) == [d EXCEPT ![k] = Append(@, v)]

(***************************************************************************)
(* State of one request.                                                   *)
(***************************************************************************)
VARIABLES
    pc,                   \* where main_route / extract_data stands
    all_rows,             \* soup.select("table.table--player-results tbody tr")
    live_tournament_rows, \* the rows kept by the filter
    total_tournaments,
    total_buyins,         \* dict: currency symbol -> amount
    total_prizes,         \* dict: currency symbol -> amount
    individual_roi_list,
    year_counts,          \* dict in insertion order: <<[year, count], ...>>
    year_roi_values,      \* dict: year -> list of ROIs
    idx,                  \* the next row of "for row in live_tournament_rows"
    events,               \* per processed row, the loop body's locals at its end
    response              \* what main_route returns

vars == <<pc, all_rows, live_tournament_rows, total_tournaments, total_buyins,
          total_prizes, individual_roi_list, year_counts, year_roi_values, idx,
          events, response>>

NoResponse == [status |-> 0]

Init ==
    /\ pc = "start"
    /\ all_rows = <<>>
    /\ live_tournament_rows = <<>>
    /\ total_tournaments = 0
    /\ total_buyins = EmptyDict
    /\ total_prizes = EmptyDict
    /\ individual_roi_list = <<>>
    /\ year_counts = <<>>
    /\ year_roi_values = EmptyDict
    /\ idx = 1
    /\ events = <<>>
    /\ response = NoResponse

(***************************************************************************)
(* The row filter.                                                         *)
(***************************************************************************)
OnlineWord == <<"O", "n", "l", "i", "n", "e">>

\* row.select_one("td.event_name").get_text() if the cell exists else ""
EventNameText(row) == IF row.hasName THEN row.name ELSE <<>>

\* "Online" not in event_name_text
IsLiveRow(row) == ~Contains(EventNameText(row), OnlineWord)

\* live_tournament_rows after the filter loop
RECURSIVE LiveRows(_)
LiveRows(rows) ==
    IF rows = <<>> THEN <<>>
    ELSE IF IsLiveRow(Head(rows)) THEN <<Head(rows)>> \o LiveRows(Tail(rows))
    ELSE LiveRows(Tail(rows))

(***************************************************************************)
(* The loop body, row by row.                                              *)
(***************************************************************************)
\* the year the row is counted under, or None
RowYear(row) == IF row.hasDate THEN YearOf(row.date) ELSE None

\* year_counts[year] = 1 in place of the increment
YearCountsOverwrite(counts, year) ==
    IF \E i \in 1..Len(counts) : counts[i].year = year
    THEN [i \in 1..Len(counts) |->
            IF counts[i].year = year THEN [year |-> year, count |-> 1]
            ELSE counts[i]]
    ELSE Append(counts, [year |-> year, count |-> 1])

\* year_counts[year] = year_counts.get(year, 0) + 1
YearCountsAfter(counts, year) ==
    IF \E i \in 1..Len(counts) : counts[i].year = year
    THEN [i \in 1..Len(counts) |->
            IF counts[i].year = year
            THEN [year |-> year, count |-> counts[i].count + 1]
            ELSE counts[i]]
    ELSE Append(counts, [year |-> year, count |-> 1])

\* a selector "td.event_name" in place of "td.event_name a"
HasNameCell(row) == row.hasName

\* event_name_cell = row.select_one("td.event_name a"): whether it exists
HasAnchor(row) == row.hasName /\ row.isAnchor

\* event_name_cell.get_text(strip=True)
AnchorText(row) == Strip(row.name)

\* the row has no buy-in: buyin_amount = 0.0, buyin_currency = None
NoBuyin == [raises |-> FALSE, amount |-> 0, currency |-> None]

\* the buy-in of a text whose currency symbol and numbers are known
BuyinOfParts(currency_symbol, numbers) ==
    IF currency_symbol = None \/ numbers = <<>> THEN NoBuyin
    ELSE IF BuyinRaises(numbers)
    THEN [raises |-> TRUE, amount |-> 0, currency |-> None]
    ELSE [raises |-> FALSE, amount |-> BuyinSum(numbers),
          currency |-> currency_symbol]

\* the buy-in block for the anchor text
BuyinOfText(text) == BuyinOfParts(parse_money(text).symbol, BuyinNumbers(text))

\* the buy-in block: [raises, amount, currency]
Buyin(row) == IF HasAnchor(row) THEN BuyinOfText(AnchorText(row)) ELSE NoBuyin

\* the prize test without "not prize_found_for_row"
PrizeEligibleEveryCell(prize_currency, prize_value, buyin_currency, prize_found_for_row) ==
    /\ prize_currency # None
    /\ prize_value > 0
    /\ prize_currency = buyin_currency

\* the prize test without "prize_value > 0"
PrizeEligibleAnyAmount(prize_currency, prize_value, buyin_currency, prize_found_for_row) ==
    /\ prize_currency # None
    /\ prize_currency = buyin_currency
    /\ ~prize_found_for_row

\* the prize test without "prize_currency == buyin_currency"
PrizeEligibleAnyCurrency(prize_currency, prize_value, buyin_currency, prize_found_for_row) ==
    /\ prize_currency # None
    /\ prize_value > 0
    /\ ~prize_found_for_row

\* the test that a currency cell is the row's prize
PrizeEligible(prize_currency, prize_value, buyin_currency, prize_found_for_row) ==
    /\ prize_currency # None
    /\ prize_value > 0
    /\ prize_currency = buyin_currency
    /\ ~prize_found_for_row

\* the accumulators after a prize that yields the ROI roi
WithRoi(prize, year, acc, roi) ==
    [prizes |-> DictAdd(acc.prizes, prize.symbol, prize.amount),
     rois   |-> Append(acc.rois, roi),
     yrois  |-> IF year # None THEN DictAppend(acc.yrois, year, roi) ELSE acc.yrois,
     found  |-> TRUE,
     roi    |-> <<roi>>,
     prize  |-> <<prize>>]

\* the body of "if prize_currency and ... and not prize_found_for_row"
TakePrize(prize, buyin, year, acc) ==
    IF buyin.amount > 0
    THEN WithRoi(prize, year, acc, Frac(prize.amount, buyin.amount))
    ELSE [acc EXCEPT !.prizes = DictAdd(acc.prizes, prize.symbol, prize.amount),
                     !.found = TRUE,
                     !.prize = <<prize>>]

\* one iteration of "for cell in prize_cells" for the parsed cell
CellStep(prize, buyin, year, acc) ==
    IF PrizeEligible(prize.symbol, prize.amount, buyin.currency, acc.found)
    THEN TakePrize(prize, buyin, year, acc)
    ELSE acc

\* "for cell in prize_cells": acc holds total_prizes, individual_roi_list,
\* year_roi_values, prize_found_for_row, and the roi and prize of this row
RECURSIVE ScanCells(_, _, _, _)
ScanCells(cells, buyin, year, acc) ==
    IF cells = <<>> THEN acc
    ELSE ScanCells(Tail(cells), buyin, year,
                   CellStep(parse_money(Strip(Head(cells))), buyin, year, acc))

\* the accumulators a row's cell loop starts from
StartAcc(prizes, rois, yrois, year) ==
    [prizes |-> prizes, rois |-> rois,
     yrois |-> IF year # None THEN SetDefaultList(yrois, year) ELSE yrois,
     found |-> FALSE, roi |-> <<>>, prize |-> <<>>]

\* the locals of a finished iteration
Event(row, year, buyin, acc) ==
    [row |-> row, year |-> year, buyin_amount |-> buyin.amount,
     buyin_currency |-> buyin.currency, prize_found_for_row |-> acc.found,
     roi |-> acc.roi, prize |-> acc.prize]

(***************************************************************************)
(* The report.                                                             *)
(***************************************************************************)
\* round(s / n, 4)
RoundedMean(s, n) == Round(Frac(s[1], s[2] * n))

\* the mean taken over total_tournaments in place of len(l)
AverageOverTournaments(l) ==
    IF l = <<>> THEN 0 ELSE RoundedMean(SumFrac(l), total_tournaments)

\* round(sum(l) / len(l), 4) if l else 0.0
AverageROI(l) == IF l = <<>> THEN 0 ELSE RoundedMean(SumFrac(l), Len(l))

\* list.insert keeping descending int(year); equal keys keep their order
RECURSIVE InsertDesc(_, _)
InsertDesc(sorted, item) ==
    IF sorted = <<>> THEN <<item>>
    ELSE IF YearInt(Head(sorted).year) >= YearInt(item.year)
    THEN <<Head(sorted)>> \o InsertDesc(Tail(sorted), item)
    ELSE <<item>> \o sorted

\* sorted(year_counts.items(), key=lambda x: int(x[0]), reverse=True)
RECURSIVE SortedYears(_)
SortedYears(counts) ==
    IF counts = <<>> THEN <<>>
    ELSE InsertDesc(SortedYears(SubSeq(counts, 1, Len(counts) - 1)),
                    counts[Len(counts)])

\* year_roi_values.get(yr, [])
RoisForYear(yrois, yr) == IF yr \in DOMAIN yrois THEN yrois[yr] ELSE <<>>

\* the lines of yearly_text for the sorted items s
YearLines(s, yrois) ==
    [i \in 1..Len(s) |->
        [year |-> s[i].year, count |-> s[i].count,
         avg |-> AverageROI(RoisForYear(yrois, s[i].year))]]

\* the lines of yearly_text: year, count and average ROI
YearlyStats(counts, yrois) == YearLines(SortedYears(counts), yrois)

(***************************************************************************)
(* Actions.                                                                *)
(***************************************************************************)
\* main_route: the request carries no url
MissingUrl ==
    /\ pc = "start"
    /\ pc' = "done"
    /\ response' = [status |-> 400]
    /\ UNCHANGED <<all_rows, live_tournament_rows, total_tournaments, total_buyins,
                   total_prizes, individual_roi_list, year_counts, year_roi_values,
                   idx, events>>

\* extract_data: the fetch raises, main_route answers 500
FetchFails ==
    /\ pc = "start"
    /\ pc' = "done"
    /\ response' = [status |-> 500, cause |-> "fetch"]
    /\ UNCHANGED <<all_rows, live_tournament_rows, total_tournaments, total_buyins,
                   total_prizes, individual_roi_list, year_counts, year_roi_values,
                   idx, events>>

\* extract_data: the page is fetched and its rows selected
ReceivePage ==
    /\ pc = "start"
    /\ \E rows \in RowSeqs : all_rows' = rows
    /\ pc' = "filter"
    /\ UNCHANGED <<live_tournament_rows, total_tournaments, total_buyins,
                   total_prizes, individual_roi_list, year_counts, year_roi_values,
                   idx, events, response>>

\* the filter loop, the count, and the fresh accumulators
FilterRows ==
    /\ pc = "filter"
    /\ live_tournament_rows' = LiveRows(all_rows)
    /\ total_tournaments' = Len(LiveRows(all_rows))
    /\ total_buyins' = EmptyDict
    /\ total_prizes' = EmptyDict
    /\ individual_roi_list' = <<>>
    /\ year_counts' = <<>>
    /\ year_roi_values' = EmptyDict
    /\ idx' = 1
    /\ pc' = "rows"
    /\ UNCHANGED <<all_rows, events, response>>

\* one iteration of the row loop that completes
ProcessRow ==
    /\ pc = "rows"
    /\ idx <= Len(live_tournament_rows)
    /\ \E row \in {live_tournament_rows[idx]} :
       \E year \in {RowYear(row)} :
       \E buyin \in {Buyin(row)} :
       \E acc \in {ScanCells(row.cells, buyin, year,
                             StartAcc(total_prizes, individual_roi_list,
                                      year_roi_values, year))} :
           /\ ~buyin.raises
           /\ year_counts' = IF year # None THEN YearCountsAfter(year_counts, year)
                             ELSE year_counts
           /\ total_buyins' = IF buyin.currency # None
                              THEN DictAdd(total_buyins, buyin.currency, buyin.amount)
                              ELSE total_buyins
           /\ total_prizes' = acc.prizes
           /\ individual_roi_list' = acc.rois
           /\ year_roi_values' = acc.yrois
           /\ events' = Append(events, Event(row, year, buyin, acc))
    /\ idx' = idx + 1
    /\ UNCHANGED <<pc, all_rows, live_tournament_rows, total_tournaments, response>>

\* an iteration in which float() raises ValueError: the exception leaves
\* extract_data and main_route answers 500
ProcessRowRaises ==
    /\ pc = "rows"
    /\ idx <= Len(live_tournament_rows)
    /\ \E row \in {live_tournament_rows[idx]} :
       \E year \in {RowYear(row)} :
           /\ Buyin(row).raises
           /\ year_counts' = IF year # None THEN YearCountsAfter(year_counts, year)
                             ELSE year_counts
           /\ year_roi_values' = IF year # None
                                 THEN SetDefaultList(year_roi_values, year)
                                 ELSE year_roi_values
    /\ pc' = "done"
    /\ response' = [status |-> 500, cause |-> "row"]
    /\ UNCHANGED <<all_rows, live_tournament_rows, total_tournaments, total_buyins,
                   total_prizes, individual_roi_list, idx, events>>

\* after the loop: the averages, the yearly statistics and the 200 response
BuildReport ==
    /\ pc = "rows"
    /\ idx > Len(live_tournament_rows)
    /\ pc' = "done"
    /\ response' =
          [status |-> 200,
           totalTournaments |-> total_tournaments,
           averageROIByCash |-> AverageROI(individual_roi_list),
           yearlyStats |-> YearlyStats(year_counts, year_roi_values),
           totalBuyins |-> total_buyins,
           totalPrizes |-> total_prizes]
    /\ UNCHANGED <<all_rows, live_tournament_rows, total_tournaments, total_buyins,
                   total_prizes, individual_roi_list, year_counts, year_roi_values,
                   idx, events>>

Next ==
    \/ MissingUrl
    \/ FetchFails
    \/ ReceivePage
    \/ FilterRows
    \/ ProcessRow
    \/ ProcessRowRaises
    \/ BuildReport

Spec == Init /\ [][Next]_vars

(***************************************************************************)
(* Properties.                                                             *)
(***************************************************************************)
\* the text with the letters of the word "ONLINE" in lower case
FoldOnline(t) ==
    [i \in 1..Len(t) |->
        CASE t[i] = "O" -> "o"
          [] t[i] = "N" -> "n"
          [] t[i] = "L" -> "l"
          [] t[i] = "I" -> "i"
          [] t[i] = "E" -> "e"
          [] OTHER -> t[i]]

\* the event name contains "online" in some letter case
OnlineAnyCase(row) ==
    Contains(FoldOnline(EventNameText(row)), FoldOnline(OnlineWord))

\* C1: a row whose event name contains "online" in any letter case is
\* excluded: it is not counted in total_tournaments and is never processed
\* by the accumulation loop (so it reaches no ledger, ROI list or bucket).
C1_OnlineAnyCaseExcluded ==
    /\ \A i \in 1..Len(live_tournament_rows) :
            ~OnlineAnyCase(live_tournament_rows[i])
    /\ \A i \in 1..Len(events) : ~OnlineAnyCase(events[i].row)
    /\ pc = "rows" =>
            total_tournaments =
                Cardinality({i \in 1..Len(all_rows) : ~OnlineAnyCase(all_rows[i])})

\* C3: once the page is fetched, no content of a row makes the request end
\* in an error response: the run ends with the 200 report.
C3_RowFailureIsolated ==
    pc = "done" => ~(response.status = 500 /\ response.cause = "row")

\* the amount of the number pattern's match starting at i, 0 without one
GroupAmountAt(t, i) ==
    IF i <= Len(t) /\ IsGroupChar(t[i])
    THEN FloatOf(Remove(Slice(t, i, NumberEnd(t, GroupRunEnd(t, i))), ",")).value
    ELSE 0

\* the amount of a '+'-joined numeric group that follows position e
PlusJoinedAmount(t, e) ==
    IF SpaceRunEnd(t, e) <= Len(t) /\ t[SpaceRunEnd(t, e)] = "+"
    THEN GroupAmountAt(t, SpaceRunEnd(t, SpaceRunEnd(t, e) + 1))
    ELSE 0

\* the buy-in the specification describes: the numeric group after the
\* symbol that starts at k, plus at most one further '+'-joined group
ClaimedBuyinFrom(t, k) ==
    GroupAmountAt(t, k) + PlusJoinedAmount(t, NumberEnd(t, GroupRunEnd(t, k)))

ClaimedBuyinAmount(text) ==
    ClaimedBuyinFrom(text,
        SpaceRunEnd(text, SymbolRunEnd(text, FirstMoneyMatch(text, 1))))

\* C5: for an event name with a currency symbol, buyin_currency is that
\* symbol and buyin_amount is the numeric group after the symbol plus at most
\* one further '+'-joined group; every other number of the text is ignored.
C5_BuyinIsPlusJoinedAmount ==
    \A i \in 1..Len(events) :
        (HasAnchor(events[i].row)
            /\ parse_money(AnchorText(events[i].row)).symbol # None)
        => /\ events[i].buyin_currency = parse_money(AnchorText(events[i].row)).symbol
           /\ events[i].buyin_amount = ClaimedBuyinAmount(AnchorText(events[i].row))

\* C9: the yearly statistics have one entry per distinct year of the counted
\* rows, in strictly descending numeric year order, each with the rounded
\* mean of that year's ROI values (0 without any).
C9_YearsStrictlyDescending ==
    (pc = "done" /\ response.status = 200) =>
        /\ \A i, j \in 1..Len(response.yearlyStats) :
              i < j => YearInt(response.yearlyStats[i].year)
                          > YearInt(response.yearlyStats[j].year)
        /\ {YearInt(response.yearlyStats[i].year) :
                i \in 1..Len(response.yearlyStats)}
              = {YearInt(events[i].year) :
                    i \in {k \in 1..Len(events) : events[k].year # None}}
        /\ \A i \in 1..Len(response.yearlyStats) :
              response.yearlyStats[i].avg =
                  AverageROI(RoisForYear(year_roi_values,
                                         response.yearlyStats[i].year))

\* the parsed first cell, in document order, whose currency is cur
RECURSIVE FirstMatchingCell(_, _)
FirstMatchingCell(cells, cur) ==
    IF cells = <<>> THEN <<>>
    ELSE IF parse_money(Strip(Head(cells))).symbol = cur
    THEN <<parse_money(Strip(Head(cells)))>>
    ELSE FirstMatchingCell(Tail(cells), cur)

\* the parsed first cell whose currency is cur and whose amount is positive
RECURSIVE FirstCashingCell(_, _)
FirstCashingCell(cells, cur) ==
    IF cells = <<>> THEN <<>>
    ELSE IF parse_money(Strip(Head(cells))).symbol = cur
            /\ parse_money(Strip(Head(cells))).amount > 0
    THEN <<parse_money(Strip(Head(cells)))>>
    ELSE FirstCashingCell(Tail(cells), cur)

\* a ledger with every cell of cells that parses posted under its currency
RECURSIVE PostEveryCell(_, _)
PostEveryCell(ledger, cells) ==
    IF cells = <<>> THEN ledger
    ELSE IF parse_money(Strip(Head(cells))).symbol # None
    THEN PostEveryCell(DictAdd(ledger, parse_money(Strip(Head(cells))).symbol,
                               parse_money(Strip(Head(cells))).amount),
                       Tail(cells))
    ELSE PostEveryCell(ledger, Tail(cells))

\* the prize ledger with every parsed cell of the first n events posted
RECURSIVE EveryCellLedger(_)
EveryCellLedger(n) ==
    IF n = 0 THEN EmptyDict
    ELSE PostEveryCell(EveryCellLedger(n - 1), events[n].row.cells)

\* the prize ledger with, per event, only the first positive cell in the
\* event's buy-in currency posted
RECURSIVE CashingCellLedger(_)
CashingCellLedger(n) ==
    IF n = 0 THEN EmptyDict
    ELSE LET cur == events[n].buyin_currency
             hit == FirstCashingCell(events[n].row.cells, cur)
         IN  IF cur # None /\ hit # <<>>
             THEN DictAdd(CashingCellLedger(n - 1), cur, hit[1].amount)
             ELSE CashingCellLedger(n - 1)

\* C2 as claimed: every currency cell of a counted row that parses is added
\* to total_prizes under its own currency, matching the buy-in or not, first
\* match or not.
C2_EveryParsedCellPosted == total_prizes = EveryCellLedger(Len(events))

\* C2 as amended: per counted row only the first cell that parses to the
\* row's buy-in currency with a positive amount is added to total_prizes;
\* cells in another currency, zero cells and later cells add nothing.
C2_OnlyFirstCashingCellPosted == total_prizes = CashingCellLedger(Len(events))

\* a row with two positive cells in its buy-in currency was processed and
\* only the first one is in the ledger
C2_Witness ==
    /\ Len(events) = 1
    /\ events[1].row.cells = <<Cell100, Cell2200>>
    /\ events[1].buyin_currency = <<"$">>
    /\ total_prizes = [c \in {<<"$">>} |-> 10000]

\* the ROI of event e when its prize cell is hit (<<>>: none)
RoiFor(e, hit) ==
    IF e.buyin_amount > 0 /\ e.buyin_currency # None /\ hit # <<>>
    THEN <<Frac(hit[1].amount, e.buyin_amount)>>
    ELSE <<>>

\* the ROI values of the first n events, in order
RECURSIVE EventRois(_)
EventRois(n) == IF n = 0 THEN <<>> ELSE EventRois(n - 1) \o events[n].roi

\* C4 as claimed: the ROI prize of a counted row is the first cell in the
\* buy-in currency whatever its amount (0 included), and the row has
\* roi = prize / buy-in exactly when buyin_amount > 0 and such a cell exists.
C4_FirstMatchingCellAnyAmount ==
    \A i \in 1..Len(events) :
        events[i].roi =
            RoiFor(events[i],
                   FirstMatchingCell(events[i].row.cells, events[i].buyin_currency))

\* C4 as amended: the ROI prize is the first cell in the buy-in currency
\* whose amount is positive; later cells are never used; the row has
\* roi = prize / buy-in exactly when buyin_amount > 0 and such a cell exists,
\* and individual_roi_list holds exactly these values in row order.
C4_FirstCashingCellGivesRoi ==
    /\ \A i \in 1..Len(events) :
          events[i].roi =
              RoiFor(events[i],
                     FirstCashingCell(events[i].row.cells, events[i].buyin_currency))
    /\ individual_roi_list = EventRois(Len(events))

\* buy-in 550 euro with cells "$0" and "EUR 1,650" has ROI 3.0
C4_Witness ==
    \E i \in 1..Len(events) :
        /\ events[i].row.name = NameEuro
        /\ events[i].row.cells = <<CellZero, CellEuro>>
        /\ events[i].buyin_amount = 55000
        /\ events[i].roi = <<<<3, 1>>>>
        /\ individual_roi_list[Len(individual_roi_list)] = <<3, 1>>

\* the currencies of the buy-ins of the events
EventBuyinCurrencies ==
    {events[i].buyin_currency : i \in 1..Len(events)} \ {None}

\* C6 as claimed: the buy-in is parsed from the event-name text, link or
\* plain text alike: a counted row whose name has a currency symbol and an
\* amount posts it to total_buyins under that symbol.
C6_PlainTextBuyinParsed ==
    \A i \in 1..Len(events) :
        (events[i].row.hasName
            /\ parse_money(Strip(events[i].row.name)).symbol # None)
        => /\ events[i].buyin_currency = parse_money(Strip(events[i].row.name)).symbol
           /\ events[i].buyin_currency \in DOMAIN total_buyins

\* C6 as amended: the buy-in is parsed only from the text of a link inside
\* the event-name cell; a row whose name is plain text has buy-in 0, no
\* buy-in currency, posts nothing to total_buyins and has no ROI.
C6_BuyinOnlyFromAnchor ==
    /\ \A i \in 1..Len(events) :
          IF events[i].row.hasName /\ events[i].row.isAnchor
          THEN parse_money(Strip(events[i].row.name)).symbol # None
               => events[i].buyin_currency
                      = parse_money(Strip(events[i].row.name)).symbol
          ELSE /\ events[i].buyin_currency = None
               /\ events[i].buyin_amount = 0
               /\ events[i].roi = <<>>
               /\ ~events[i].prize_found_for_row
    /\ DOMAIN total_buyins = EventBuyinCurrencies

\* a plain-text name "$500 NLH" with a "$2,200" cell was reported without
\* buy-in and ROI
C6_Witness ==
    /\ pc = "done"
    /\ response.status = 200
    /\ \E i \in 1..Len(events) :
          /\ ~events[i].row.isAnchor
          /\ parse_money(Strip(events[i].row.name)).symbol = <<"$">>
          /\ events[i].row.cells = <<Cell2200>>
          /\ events[i].roi = <<>>
    /\ response.totalBuyins = EmptyDict

\* the 200 report has been built
Reported == pc = "done" /\ response.status = 200

\* C7: averageROIByCash is the mean, rounded to 4 decimals, of the ROI values
\* of exactly the counted rows that have a ROI - divided by their number, not
\* by total_tournaments - and 0.0 when no counted row has a ROI (the empty
\* page included).
C7_AverageOverRoiRows ==
    Reported =>
        /\ Len(events) = total_tournaments
        /\ LET rois == EventRois(Len(events))
               sum  == SumFrac(rois)
           IN  response.averageROIByCash =
                   IF rois = <<>> THEN 0
                   ELSE Round(Frac(sum[1], sum[2] * Len(rois)))

\* two rows are counted, one has ROI 4.4, and the average is 4.4
C7_Witness ==
    /\ Reported
    /\ response.totalTournaments = 2
    /\ Len(individual_roi_list) = 1
    /\ events[1].roi = <<>>
    /\ events[2].roi = <<<<22, 5>>>>
    /\ response.averageROIByCash = 44000

\* the count year_counts holds for the year text y
CountOf(counts, y) ==
    IF \E i \in 1..Len(counts) : counts[i].year = y
    THEN (CHOOSE c \in {counts[i] : i \in 1..Len(counts)} : c.year = y).count
    ELSE 0

\* the processed rows whose date text holds the year text y
EventsOfYear(y) ==
    {i \in 1..Len(events) :
        events[i].row.hasDate /\ YearOf(events[i].row.date) = y}

\* the year texts of the processed rows and of year_counts
SeenYears ==
    ({IF events[i].row.hasDate THEN YearOf(events[i].row.date) ELSE None :
        i \in 1..Len(events)}
     \cup {year_counts[i].year : i \in 1..Len(year_counts)}) \ {None}

\* C8: every row that passes the online filter counts exactly once in
\* total_tournaments and, when its date holds a 4-digit year, exactly once in
\* that year's count, whether or not it yields a ROI; a row with buy-in 0 or
\* without a cell in its buy-in currency adds nothing to the ROI list or to
\* its year's ROI list.
C8_EveryLiveRowCounted ==
    (pc = "rows" \/ Reported) =>
        /\ total_tournaments =
              Cardinality({i \in 1..Len(all_rows) :
                              ~Contains(EventNameText(all_rows[i]), OnlineWord)})
        /\ Len(events) = idx - 1
        /\ \A i \in 1..Len(events) : events[i].row = live_tournament_rows[i]
        /\ \A y \in SeenYears :
              /\ CountOf(year_counts, y) = Cardinality(EventsOfYear(y))
              /\ Len(RoisForYear(year_roi_values, y))
                    = Cardinality({i \in EventsOfYear(y) : events[i].roi # <<>>})
        /\ \A i \in 1..Len(events) :
              (events[i].buyin_amount = 0
                  \/ FirstMatchingCell(events[i].row.cells,
                                       events[i].buyin_currency) = <<>>)
              => events[i].roi = <<>>
        /\ Len(individual_roi_list)
              = Cardinality({i \in 1..Len(events) : events[i].roi # <<>>})
        /\ Reported =>
              /\ response.totalTournaments = Len(events)
              /\ \A k \in 1..Len(response.yearlyStats) :
                    response.yearlyStats[k].count
                        = Cardinality(EventsOfYear(response.yearlyStats[k].year))

\* two rows of 2023 are reported, one without buy-in and one without a cell
\* in its buy-in currency: both are counted and neither has a ROI
C8_Witness ==
    /\ Reported
    /\ response.totalTournaments = 2
    /\ events[1].buyin_amount = 0
    /\ events[2].buyin_amount > 0
    /\ events[2].row.cells = <<CellEuro>>
    /\ individual_roi_list = <<>>
    /\ response.yearlyStats =
          <<[year |-> <<"2", "0", "2", "3">>, count |-> 2, avg |-> 0]>>

\* the amount ledger holds for currency c, 0 when c is no key
Held(ledger, c) == IF c \in DOMAIN ledger THEN ledger[c] ELSE 0

\* C10: in every step of the run the prize currencies stay a subset of the
\* buy-in currencies, the ROI list stays no longer than total_tournaments, no
\* ledger total decreases, and a processed row changes the prize ledger at
\* most under its own buy-in currency, by the amount of one of its cells, and
\* adds at most one ROI value.
C10_AccumulationInvariant ==
    [][/\ DOMAIN total_prizes' \subseteq DOMAIN total_buyins'
       /\ Len(individual_roi_list') <= total_tournaments'
       /\ \A c \in DOMAIN total_buyins :
             c \in DOMAIN total_buyins' /\ total_buyins'[c] >= total_buyins[c]
       /\ \A c \in DOMAIN total_prizes :
             c \in DOMAIN total_prizes' /\ total_prizes'[c] >= total_prizes[c]
       /\ events' # events =>
             /\ \A c \in DOMAIN total_prizes' :
                   Held(total_prizes, c) # total_prizes'[c] =>
                      /\ c = events'[Len(events')].buyin_currency
                      /\ \E k \in 1..Len(events'[Len(events')].row.cells) :
                            parse_money(Strip(events'[Len(events')].row.cells[k])).amount
                                = total_prizes'[c] - Held(total_prizes, c)
             /\ Len(individual_roi_list') <= Len(individual_roi_list) + 1
      ]_vars

\* two rows with different buy-in currencies have both posted a prize
C10_Witness ==
    /\ Len(events) = 2
    /\ events[1].prize_found_for_row
    /\ events[2].prize_found_for_row
    /\ events[1].buyin_currency # events[2].buyin_currency
    /\ DOMAIN total_prizes = DOMAIN total_buyins
    /\ Len(individual_roi_list) = 2

====
